---- MODULE Spec2Model ----
(***************************************************************************)
(* Tab Manager of the Spacedrive interface                                 *)
(* (packages/interface/src/components/TabManager/useTabManager.ts):        *)
(* the tab list and active-tab pointer held in React state, the external   *)
(* ExplorerStateStore, the per-tab selection map, and the snapshot kept in *)
(* localStorage under 'sd-tabs-state'.                                     *)
(*                                                                         *)
(* JavaScript strings that the code slices or splits (paths, titles) are   *)
(* sequences of one-character strings; tab ids are opaque strings.         *)
(* JavaScript values that cross the JSON codec are tagged records          *)
(* [t |-> <type>, v |-> <payload>].                                        *)
(***************************************************************************)
EXTENDS Integers, Sequences, FiniteSets, TLC

(***************************************************************************)
(* Bounds of the model.                                                    *)
(***************************************************************************)
\* number of ids crypto.randomUUID() hands out in one behaviour
MaxIds == 3
\* largest value Date.now() returns (the clock never runs backwards)
MaxClock == 1
\* number of operations in one behaviour
MaxSteps == 4

(***************************************************************************)
(* JavaScript values.                                                      *)
(***************************************************************************)
Undefined == [t |-> "undefined"]
Null == [t |-> "null"]
NaN == [t |-> "nan"]
Num(n) == [t |-> "number", v |-> n]
Str(s) == [t |-> "string", v |-> s]
Bool(b) == [t |-> "boolean", v |-> b]
Arr(s) == [t |-> "array", v |-> s]
Obj(f) == [t |-> "object", v |-> f]

Max(a, b) == IF a >= b THEN a ELSE b

\* Array.prototype.findIndex on the tab list, 0-based, -1 when absent
FindIndex(list, tabId) ==
    IF \E i \in 1..Len(list) : list[i].id = tabId
    THEN (CHOOSE i \in 1..Len(list) :
              /\ list[i].id = tabId
              /\ \A j \in 1..(i - 1) : list[j].id # tabId) - 1
    ELSE -1

\* Array.prototype.filter((t) => t.id !== tabId)
FilterOut(list, tabId) == SelectSeq(list, LAMBDA t : t.id # tabId)

\* the ids of a tab list, in order
Ids(list) == [i \in 1..Len(list) |-> list[i].id]
IdSet(list) == {list[i].id : i \in 1..Len(list)}

\* crypto.randomUUID(): the n-th id generated
Uuid(n) == "t" \o ToString(n)

(***************************************************************************)
(* Strings as character sequences.                                         *)
(***************************************************************************)
S_Root == <<"/">>
S_Favorites == <<"/", "f", "a", "v", "o", "r", "i", "t", "e", "s">>
S_Recents == <<"/", "r", "e", "c", "e", "n", "t", "s">>
S_FileKinds == <<"/", "f", "i", "l", "e", "-", "k", "i", "n", "d", "s">>
S_Search == <<"/", "s", "e", "a", "r", "c", "h">>
S_Jobs == <<"/", "j", "o", "b", "s">>
S_Daemon == <<"/", "d", "a", "e", "m", "o", "n">>
S_Explorer == <<"/", "e", "x", "p", "l", "o", "r", "e", "r">>
S_TagPrefix == <<"/", "t", "a", "g", "/">>
S_TagPath == S_TagPrefix \o <<"a", "b", "c", "d", "e", "f", "1", "2", "3", "4">>

T_Overview == <<"O", "v", "e", "r", "v", "i", "e", "w">>
T_Favorites == <<"F", "a", "v", "o", "r", "i", "t", "e", "s">>
T_Recents == <<"R", "e", "c", "e", "n", "t", "s">>
T_FileKinds == <<"F", "i", "l", "e", " ", "K", "i", "n", "d", "s">>
T_Search == <<"S", "e", "a", "r", "c", "h">>
T_Jobs == <<"J", "o", "b", "s">>
T_Daemon == <<"D", "a", "e", "m", "o", "n">>
T_Tag == <<"T", "a", "g">>
T_TagColon == <<"T", "a", "g", ":", " ">>
T_Dots == <<".", ".", ".">>
T_ThisDevice == <<"T", "h", "i", "s", " ", "D", "e", "v", "i", "c", "e">>
T_Explorer == <<"E", "x", "p", "l", "o", "r", "e", "r">>
T_Spacedrive == <<"S", "p", "a", "c", "e", "d", "r", "i", "v", "e">>
T_Docs == <<"D", "o", "c", "s">>

\* String.prototype.startsWith
StartsWith(s, p) == Len(s) >= Len(p) /\ SubSeq(s, 1, Len(p)) = p

\* index of the first occurrence of character c in s at or after from, 0 if none
IndexOfChar(s, c, from) ==
    IF \E i \in from..Len(s) : s[i] = c
    THEN CHOOSE i \in from..Len(s) :
             s[i] = c /\ \A j \in from..(i - 1) : s[j] # c
    ELSE 0

\* String.prototype.split(c): the sequence of pieces between occurrences of c
RECURSIVE Split(_, _)
Split(s, c) ==
    LET i == IndexOfChar(s, c, 1)
    IN IF i = 0 THEN <<s>>
       ELSE <<SubSeq(s, 1, i - 1)>> \o Split(SubSeq(s, i + 1, Len(s)), c)

\* String.prototype.slice(0, n)
Slice0(s, n) == SubSeq(s, 1, IF Len(s) < n THEN Len(s) ELSE n)

(***************************************************************************)
(* Title Deriver: deriveTitleFromPath(pathname, search).                   *)
(***************************************************************************)
\* the value of a percent escape %ab, for the escapes that
\* encodeURIComponent(JSON.stringify({Physical: {path}})) produces;
\* "" when ab is not one of them
HexPair(a, b) ==
    CASE a = "7" /\ b = "B" -> "{"
      [] a = "7" /\ b = "D" -> "}"
      [] a = "2" /\ b = "2" -> "\""
      [] a = "3" /\ b = "A" -> ":"
      [] a = "2" /\ b = "F" -> "/"
      [] a = "2" /\ b = "5" -> "%"
      [] a = "2" /\ b = "0" -> " "
      [] OTHER -> ""

\* is s[i] the start of a well-formed escape
EscapeAt(s, i) == s[i] = "%" /\ i + 2 <= Len(s) /\ HexPair(s[i + 1], s[i + 2]) # ""

\* percent-decoding as URLSearchParams does it: '+' is a space, a malformed
\* escape is kept as it is
RECURSIVE FormDecode(_)
FormDecode(s) ==
    IF s = <<>> THEN <<>>
    ELSE IF EscapeAt(s, 1)
         THEN <<HexPair(s[2], s[3])>> \o FormDecode(SubSeq(s, 4, Len(s)))
         ELSE <<IF s[1] = "+" THEN " " ELSE s[1]>> \o FormDecode(Tail(s))

\* decodeURIComponent throws URIError on a malformed escape
RECURSIVE UriMalformed(_)
UriMalformed(s) ==
    IF s = <<>> THEN FALSE
    ELSE IF s[1] = "%"
         THEN IF EscapeAt(s, 1) THEN UriMalformed(SubSeq(s, 4, Len(s))) ELSE TRUE
         ELSE UriMalformed(Tail(s))

RECURSIVE UriDecode(_)
UriDecode(s) ==
    IF s = <<>> THEN <<>>
    ELSE IF EscapeAt(s, 1)
         THEN <<HexPair(s[2], s[3])>> \o UriDecode(SubSeq(s, 4, Len(s)))
         ELSE <<s[1]>> \o UriDecode(Tail(s))

\* new URLSearchParams(search).get(name): the decoded value of the first
\* name=value pair called name, Null when there is none
RECURSIVE FirstParam(_, _)
FirstParam(pairs, name) ==
    IF pairs = <<>> THEN Null
    ELSE LET p == Head(pairs)
              eq == IndexOfChar(p, "=", 1)
              k == FormDecode(IF eq = 0 THEN p ELSE SubSeq(p, 1, eq - 1))
              v == FormDecode(IF eq = 0 THEN <<>> ELSE SubSeq(p, eq + 1, Len(p)))
         IN IF p # <<>> /\ k = name THEN Str(v) ELSE FirstParam(Tail(pairs), name)

ParamsGet(search, name) ==
    LET body == IF search # <<>> /\ search[1] = "?" THEN Tail(search) ELSE search
    IN FirstParam(Split(body, "&"), name)

\* JSON.parse(text)?.Physical?.path for a text of the form
\* {"Physical":{"path":"<p>"}} with no quote or backslash in <p>: Str(p).
\* Every other text either makes JSON.parse throw or has no such field, and
\* both make the caller fall through: Undefined.
J_Open == <<"{", "\"", "P", "h", "y", "s", "i", "c", "a", "l", "\"", ":", "{", "\"", "p", "a", "t", "h", "\"", ":", "\"">>
J_Close == <<"\"", "}", "}">>
PhysicalPath(text) ==
    LET n == Len(text)
        lo == Len(J_Open)
        lc == Len(J_Close)
    IN IF /\ n >= lo + lc
          /\ SubSeq(text, 1, lo) = J_Open
          /\ SubSeq(text, n - lc + 1, n) = J_Close
          /\ \A i \in (lo + 1)..(n - lc) : text[i] \notin {"\"", "\\"}
       THEN Str(SubSeq(text, lo + 1, n - lc))
       ELSE Undefined

\* fullPath.split('/').filter(Boolean)
PathParts(fullPath) == SelectSeq(Split(fullPath, "/"), LAMBDA part : part # <<>>)

\* the fixed route table
RouteTitles ==
    (S_Root :> T_Overview) @@ (S_Favorites :> T_Favorites) @@
    (S_Recents :> T_Recents) @@ (S_FileKinds :> T_FileKinds) @@
    (S_Search :> T_Search) @@ (S_Jobs :> T_Jobs) @@ (S_Daemon :> T_Daemon)

S_View == <<"v", "i", "e", "w">>
S_Device == <<"d", "e", "v", "i", "c", "e">>
S_Path == <<"p", "a", "t", "h">>

ExplorerTitle(search) ==
    LET view == ParamsGet(search, S_View)
        pathParam == ParamsGet(search, S_Path)
    IN IF view = Str(S_Device) THEN T_ThisDevice
       ELSE IF pathParam.t = "string" /\ pathParam.v # <<>>
                 /\ ~UriMalformed(pathParam.v)
            THEN LET phys == PhysicalPath(UriDecode(pathParam.v))
                 IN IF phys.t = "string" /\ phys.v # <<>>
                    THEN LET parts == PathParts(phys.v)
                         IN IF parts # <<>> THEN parts[Len(parts)] ELSE T_Explorer
                    ELSE T_Explorer
            ELSE T_Explorer

deriveTitleFromPath(pathname, search) ==
    IF pathname \in DOMAIN RouteTitles THEN RouteTitles[pathname]
    ELSE IF StartsWith(pathname, S_TagPrefix)
         THEN LET pieces == Split(pathname, "/")
                  tagId == IF Len(pieces) >= 3 THEN pieces[3] ELSE <<>>
              IN IF tagId # <<>> THEN T_TagColon \o Slice0(tagId, 8) \o T_Dots
                 ELSE T_Tag
    ELSE IF pathname = S_Explorer /\ search # <<>> THEN ExplorerTitle(search)
    ELSE T_Spacedrive

(***************************************************************************)
(* Explorer view state and the JSON codec.                                 *)
(***************************************************************************)
\* DEFAULT_EXPLORER_STATE: an object, as a function from field name to value
DEFAULT_EXPLORER_STATE ==
    [viewMode |-> Str("grid"),
     sortBy |-> Str("name"),
     gridSize |-> Num(120),
     gapSize |-> Num(16),
     foldersFirst |-> Bool(TRUE),
     columnStack |-> Arr(<<>>),
     scrollTop |-> Num(0),
     scrollLeft |-> Num(0),
     sizeViewTransform |-> Obj([k |-> Num(1), x |-> Num(0), y |-> Num(0)])]

\* object spread {...current, ...updates}
Spread(current, updates) ==
    [f \in (DOMAIN current) \cup (DOMAIN updates) |->
        IF f \in DOMAIN updates THEN updates[f] ELSE current[f]]

\* Map.prototype.set / Map.prototype.delete on a keyed table
MapSet(m, key, val) == [x \in (DOMAIN m) \cup {key} |-> IF x = key THEN val ELSE m[x]]
MapDelete(m, key) == [x \in (DOMAIN m) \ {key} |-> m[x]]
EmptyMap == [x \in {} |-> Null]

\* JSON.stringify followed by JSON.parse of the text it wrote: what a value
\* is read back as. A non-finite number is written as null, an undefined
\* property is not written, an undefined array element is written as null.
RECURSIVE JsonRoundTrip(_)
JsonRoundTrip(val) ==
    IF val.t = "object"
    THEN Obj([f \in {g \in DOMAIN val.v : val.v[g].t # "undefined"} |->
                 JsonRoundTrip(val.v[f])])
    ELSE IF val.t = "array"
    THEN Arr([i \in 1..Len(val.v) |-> JsonRoundTrip(val.v[i])])
    ELSE IF val.t \in {"nan", "undefined"} THEN Null
    ELSE val

\* a Tab as a JavaScript object, and back
TabToJs(tab) ==
    Obj([id |-> Str(tab.id), title |-> Str(tab.title), icon |-> tab.icon,
         isPinned |-> Bool(tab.isPinned), lastActive |-> Num(tab.lastActive),
         savedPath |-> Str(tab.savedPath)])
TabFromJs(o) ==
    [id |-> o.v.id.v, title |-> o.v.title.v, icon |-> o.v.icon,
     isPinned |-> o.v.isPinned.v, lastActive |-> o.v.lastActive.v,
     savedPath |-> o.v.savedPath.v]

\* mutant: a snapshot that carries the selection of the first tab
PersistedState_WithSelection(tabList, active, table, defaultPath) ==
    Obj([tabs |-> Arr([i \in 1..Len(tabList) |-> TabToJs(tabList[i])]),
         activeTabId |-> Str(active),
         explorerStates |-> Obj([id \in DOMAIN table |-> Obj(table[id])]),
         defaultNewTabPath |-> Str(defaultPath),
         selectionStates |-> Obj([id \in {tabList[1].id} |-> Arr(<<>>)])])

\* the PersistedState object the persistence effect assembles
PersistedState(tabList, active, table, defaultPath) ==
    Obj([tabs |-> Arr([i \in 1..Len(tabList) |-> TabToJs(tabList[i])]),
         activeTabId |-> Str(active),
         explorerStates |-> Obj([id \in DOMAIN table |-> Obj(table[id])]),
         defaultNewTabPath |-> Str(defaultPath)])

\* the content of the localStorage slot 'sd-tabs-state': no item, a text
\* that is not JSON, or a JSON document (held as the value it parses to)
NoItem == [t |-> "noitem"]
CorruptText == [t |-> "corrupt"]

\* savePersistedState(state): the slot after localStorage.setItem
savePersistedState(state) == JsonRoundTrip(state)

\* mutant: a failed write that leaves the slot without its item
FailedWrite_Clears(slot) == NoItem

\* savePersistedState(state) when setItem throws: the catch swallows the
\* exception and the slot keeps what it held
FailedWrite(slot) == slot

\* property read parsed.<f> of a parsed value that is not null
Prop(o, f) == IF o.t = "object" /\ f \in DOMAIN o.v THEN o.v[f] ELSE Undefined

\* loadPersistedState(): the parsed snapshot, or Null
loadPersistedState(slot) ==
    IF slot.t \in {"noitem", "corrupt"} THEN Null
    ELSE IF slot.t = "null" THEN Null
    ELSE IF \/ Prop(slot, "tabs").t # "array"
            \/ Prop(slot, "activeTabId").t # "string"
            \/ Prop(slot, "explorerStates").t \notin {"object", "array", "null"}
         THEN Null
    ELSE slot

(***************************************************************************)
(* State.                                                                  *)
(***************************************************************************)
VARIABLES
    tabs,               \* useState<Tab[]>: the tab list
    activeTabId,        \* useState<string>: the active-tab pointer
    selectionStates,    \* useState<Map<string, string[]>>: per-tab selection
    defaultNewTabPath,  \* useState<string>
    states,             \* ExplorerStateStore.states: tab id -> explorer state
    listeners,          \* ExplorerStateStore.listeners: the per-tab subscribers
                        \* of useTabExplorerState, each named by its tab id
    storage,            \* the localStorage slot STORAGE_KEY
    backend,            \* "ok", or "full" when localStorage.setItem throws
    nextId,             \* how many ids crypto.randomUUID() has handed out, plus 1
    clock,              \* the last value Date.now() returned
    written,            \* the state handed to the last savePersistedState call
    delivered,          \* listener -> the tab ids the store passed it during
                        \* the last operation, in order
    last,               \* the last operation and its arguments
    steps,              \* the number of operations so far
    navTrail,           \* history: the active ids before and after each of the
                        \* nextTab calls made in a row up to now
    reorderUndo         \* history: the arguments of the last operation if it
                        \* was a reorderTabs(a, b) that moved a tab and the
                        \* order of the ids before it; back says that the
                        \* operation before it was a reorderTabs(b, a) that
                        \* moved a tab, and origin is the order before that one

vars == <<tabs, activeTabId, selectionStates, defaultNewTabPath, states,
          listeners, storage, backend, written, nextId, clock, delivered,
          last, steps, navTrail, reorderUndo>>

\* the broadcast sentinel of loadFromRecord
Sentinel == ""

\* an id that crypto.randomUUID() never returns
GhostId == "ghost"

\* the ids handed out so far (of open and of closed tabs)
KnownIds == {Uuid(n) : n \in 1..(nextId - 1)}

\* the tab ids a caller may pass: the id of an open tab, of a closed tab, or
\* of no tab at all
ArgIds == KnownIds \cup {GhostId}

\* the same, with the empty string among the ids of no tab
StoreArgIds == KnownIds \cup {Sentinel}

\* one more operation of the application; the storage backend is not the
\* application's to change
Step == steps < MaxSteps /\ steps' = steps + 1 /\ UNCHANGED backend

NoUndo == [a |-> "", b |-> "", order |-> <<>>, back |-> FALSE, origin |-> <<>>]
NoHistory == navTrail' = <<>> /\ reorderUndo' = NoUndo

Label(op, id, id2, arg) == [op |-> op, id |-> id, id2 |-> id2, arg |-> arg]
NoArg == Undefined

(***************************************************************************)
(* ExplorerStateStore.                                                     *)
(***************************************************************************)
\* getState(tabId) on a table
getState(table, tabId) ==
    IF tabId \in DOMAIN table THEN table[tabId] ELSE DEFAULT_EXPLORER_STATE

\* mutant: updateState merging onto the default instead of the current state
updateState_OntoDefault(table, tabId, updates) ==
    MapSet(table, tabId, Spread(DEFAULT_EXPLORER_STATE, updates))

\* setState, updateState, deleteState: the table afterwards
setState(table, tabId, state) == MapSet(table, tabId, state)
updateState(table, tabId, updates) ==
    MapSet(table, tabId, Spread(getState(table, tabId), updates))
deleteState(table, tabId) == MapDelete(table, tabId)

\* getAllStates() / loadFromRecord(record): Object.fromEntries and
\* Object.entries keep every own key; an array has its indices as keys
getAllStates(table) == table
loadFromRecord(record) ==
    IF record.t = "array"
    THEN [k \in {ToString(i - 1) : i \in 1..Len(record.v)} |->
            record.v[CHOOSE i \in 1..Len(record.v) : ToString(i - 1) = k].v]
    ELSE [id \in DOMAIN record.v |-> record.v[id].v]

\* mutant: a store that calls only the listeners bound to the changed tab
notifyListeners_Filtering(ls, tabId) ==
    [l \in ls |-> IF l = tabId THEN <<tabId>> ELSE <<>>]

\* notifyListeners(tabId): every registered listener is called once with tabId
notifyListeners(ls, tabId) == [l \in ls |-> <<tabId>>]
NoNotification(ls) == [l \in ls |-> <<>>]

\* mutant: a subscriber that reacts to every delivery
CallsBack_Unfiltered(tabId, changedTabId) == TRUE

\* mutant: a subscriber that reacts to deliveries of its own id only
CallsBack_OwnIdOnly(tabId, changedTabId) == changedTabId = tabId

\* the subscription callback of useTabExplorerState(tabId): does a delivery
\* of changedTabId call the React callback of the subscriber bound to tabId
CallsBack(tabId, changedTabId) == changedTabId = Sentinel \/ changedTabId = tabId

\* how often the React callback of listener l ran, given the deliveries
CallbackCount(d, l) == Len(SelectSeq(d[l], LAMBDA c : CallsBack(l, c)))

(***************************************************************************)
(* Persistence effect: useEffect(..., [tabs, activeTabId, defaultNewTabPath]). *)
(* It runs after a render in which one of the three changed (the tab list  *)
(* by reference), and reads the store at that time.                        *)
(***************************************************************************)
EffectRuns(newTabsRef, active, defaultPath) ==
    newTabsRef \/ active # activeTabId \/ defaultPath # defaultNewTabPath

Snapshot(tabList, active, table, defaultPath) ==
    [tabs |-> tabList, activeTabId |-> active,
     explorerStates |-> getAllStates(table), defaultNewTabPath |-> defaultPath]

PersistenceEffect(newTabsRef, tabList, active, table, defaultPath) ==
    IF EffectRuns(newTabsRef, active, defaultPath)
    THEN /\ storage' = IF backend = "full"
                        THEN FailedWrite(storage)
                        ELSE savePersistedState(
                                 PersistedState(tabList, active,
                                                getAllStates(table), defaultPath))
         /\ written' = Snapshot(tabList, active, table, defaultPath)
    ELSE UNCHANGED <<storage, written>>

(***************************************************************************)
(* TabManagerProvider: the state initialisers and the two mount effects.   *)
(***************************************************************************)
\* does the slot hold a snapshot whose tab list is adopted
AdoptsTabs(slot) ==
    LET persisted == loadPersistedState(slot)
    IN persisted # Null /\ Len(persisted.v.tabs.v) > 0

\* useState<Tab[]> initialiser; n and now are what crypto.randomUUID() and
\* Date.now() return if they are called
InitialTabs(slot, n, now) ==
    LET persisted == loadPersistedState(slot)
    IN IF AdoptsTabs(slot)
       THEN [i \in 1..Len(persisted.v.tabs.v) |-> TabFromJs(persisted.v.tabs.v[i])]
       ELSE <<[id |-> Uuid(n), title |-> T_Overview, icon |-> Null,
               isPinned |-> FALSE, lastActive |-> now, savedPath |-> S_Root]>>

\* mutant: an initialiser that does not restore the persisted active id
InitialActiveTabId_First(slot, tabList) == tabList[1].id

\* mutant: an initialiser that trusts the persisted active id
InitialActiveTabId_Trusting(slot, tabList) ==
    LET persisted == loadPersistedState(slot)
    IN IF persisted # Null /\ persisted.v.activeTabId.v # ""
       THEN persisted.v.activeTabId.v
       ELSE tabList[1].id

\* useState<string> initialiser of activeTabId
InitialActiveTabId(slot, tabList) ==
    LET persisted == loadPersistedState(slot)
    IN IF /\ persisted # Null
          /\ persisted.v.activeTabId.v # ""
          /\ \E i \in 1..Len(persisted.v.tabs.v) :
                 persisted.v.tabs.v[i].v.id.v = persisted.v.activeTabId.v
       THEN persisted.v.activeTabId.v
       ELSE tabList[1].id

\* does the first mount effect call loadFromRecord (else setState)
Rehydrates(slot) ==
    LET persisted == loadPersistedState(slot)
    IN persisted # Null /\ persisted.v.explorerStates.t \in {"object", "array"}

\* mutant: a first mount effect that seeds the store and loads nothing
InitialStates_SeedOnly(slot, tabList) ==
    setState(EmptyMap, tabList[1].id, DEFAULT_EXPLORER_STATE)

\* the store after the first mount effect ran on a new store
InitialStates(slot, tabList) ==
    IF Rehydrates(slot)
    THEN loadFromRecord(loadPersistedState(slot).v.explorerStates)
    ELSE setState(EmptyMap, tabList[1].id, DEFAULT_EXPLORER_STATE)

\* useState initialiser of selectionStates
InitialSelection(tabList) == MapSet(EmptyMap, tabList[1].id, <<>>)

\* useState initialiser of defaultNewTabPath: persisted?.defaultNewTabPath ?? '/'
InitialDefaultPath(slot) ==
    LET persisted == loadPersistedState(slot)
    IN IF persisted = Null \/ Prop(persisted, "defaultNewTabPath").t \in {"undefined", "null"}
       THEN S_Root
       ELSE Prop(persisted, "defaultNewTabPath").v

\* the slot after the second mount effect (the persistence effect) ran
InitialStorage(slot, n, now) ==
    LET tabList == InitialTabs(slot, n, now)
    IN savePersistedState(
           PersistedState(tabList, InitialActiveTabId(slot, tabList),
                          getAllStates(InitialStates(slot, tabList)),
                          InitialDefaultPath(slot)))

\* what the slot may hold when the application is first started
InitialSlots == {NoItem}

\* the provider is mounted with the slot holding slot; n is the number of
\* the next id crypto.randomUUID() hands out and now what Date.now() returns
Mount(slot, n, now) ==
    /\ tabs = InitialTabs(slot, n, now)
    /\ activeTabId = InitialActiveTabId(slot, tabs)
    /\ selectionStates = InitialSelection(tabs)
    /\ defaultNewTabPath = InitialDefaultPath(slot)
    /\ states = InitialStates(slot, tabs)
    /\ listeners = {}
    /\ storage = InitialStorage(slot, n, now)
    /\ backend = "ok"
    /\ written = Snapshot(tabs, activeTabId, states, defaultNewTabPath)
    /\ nextId = IF AdoptsTabs(slot) THEN n ELSE n + 1
    /\ clock = now
    /\ delivered = NoNotification({})
    /\ last = Label("mount", "", "", slot)
    /\ steps = 0
    /\ navTrail = <<>>
    /\ reorderUndo = NoUndo

Init == \E slot \in InitialSlots : Mount(slot, 1, 0)

\* the application is closed and started again: the React state and the
\* module-level store are built anew from the slot
Restart ==
    \E now \in clock..MaxClock :
        /\ Step
        /\ AdoptsTabs(storage) \/ nextId <= MaxIds
        /\ tabs' = InitialTabs(storage, nextId, now)
        /\ activeTabId' = InitialActiveTabId(storage, tabs')
        /\ selectionStates' = InitialSelection(tabs')
        /\ defaultNewTabPath' = InitialDefaultPath(storage)
        /\ states' = InitialStates(storage, tabs')
        /\ listeners' = {}
        /\ storage' = IF backend = "full" THEN FailedWrite(storage)
                       ELSE InitialStorage(storage, nextId, now)
        /\ written' = Snapshot(tabs', activeTabId', states', defaultNewTabPath')
        /\ nextId' = IF AdoptsTabs(storage) THEN nextId ELSE nextId + 1
        /\ clock' = IF AdoptsTabs(storage) THEN clock ELSE now
        /\ delivered' = NoNotification({})
        /\ last' = Label("restart", "", "", storage)
        /\ NoHistory

(***************************************************************************)
(* Tab Manager operations. Each action is one call of the handler followed *)
(* by the render and the effects it causes.                                *)
(***************************************************************************)
\* the titles and paths callers pass
CreateArgs == {<<Undefined, Undefined>>, <<Str(T_Docs), Str(S_TagPath)>>}
NewTitles == {T_Docs}
NewPaths == {S_Favorites}

\* createTab: the title of the new tab
CreatedTitle(title, tabPath) ==
    LET pieces == Split(tabPath, "?")
        pathname == pieces[1]
        search == IF Len(pieces) >= 2 THEN pieces[2] ELSE <<>>
    IN IF title.t = "string" /\ title.v # <<>> THEN title.v
       ELSE deriveTitleFromPath(pathname,
                IF search # <<>> THEN <<"?">> \o search ELSE <<>>)

\* mutant: createTab giving the new tab the id generated before
NewTab_ReusedId(title, path, closureDefaultPath, n, now) ==
    LET tabPath == IF path.t = "string" THEN path.v ELSE closureDefaultPath
    IN [id |-> Uuid(n - 1), title |-> CreatedTitle(title, tabPath), icon |-> Null,
        isPinned |-> FALSE, lastActive |-> now, savedPath |-> tabPath]

\* mutant: createTab falling back to '/' instead of the default path
NewTab_RootDefault(title, path, closureDefaultPath, n, now) ==
    LET tabPath == IF path.t = "string" THEN path.v ELSE S_Root
    IN [id |-> Uuid(n), title |-> CreatedTitle(title, tabPath), icon |-> Null,
        isPinned |-> FALSE, lastActive |-> now, savedPath |-> tabPath]

\* createTab: the new tab
NewTab(title, path, closureDefaultPath, n, now) ==
    LET tabPath == IF path.t = "string" THEN path.v ELSE closureDefaultPath
    IN [id |-> Uuid(n), title |-> CreatedTitle(title, tabPath), icon |-> Null,
        isPinned |-> FALSE, lastActive |-> now, savedPath |-> tabPath]

createTab(title, path) ==
    \E now \in clock..MaxClock :
        LET newTab == NewTab(title, path, defaultNewTabPath, nextId, now)
        IN /\ Step
           /\ nextId <= MaxIds
           /\ states' = setState(states, newTab.id, DEFAULT_EXPLORER_STATE)
           /\ delivered' = notifyListeners(listeners, newTab.id)
           /\ selectionStates' = MapSet(selectionStates, newTab.id, <<>>)
           /\ tabs' = Append(tabs, newTab)
           /\ activeTabId' = newTab.id
           /\ PersistenceEffect(TRUE, tabs', activeTabId', states', defaultNewTabPath)
           /\ nextId' = nextId + 1
           /\ clock' = now
           /\ last' = Label("createTab", newTab.id, "", path)
           /\ NoHistory
           /\ UNCHANGED <<defaultNewTabPath, listeners>>

\* mutant: closeTab without the guard against an empty list
ClosedTabs_NoGuard(prev, tabId) == FilterOut(prev, tabId)

\* closeTab: the setTabs updater's result on prev
ClosedTabs(prev, tabId) ==
    LET filtered == FilterOut(prev, tabId)
    IN IF Len(filtered) = 0 THEN prev ELSE filtered

\* mutant: closeTab activating the tab that followed the closed one
ClosedActive_Following(prev, tabId, closureActive, current) ==
    LET filtered == FilterOut(prev, tabId)
        currentIndex == FindIndex(prev, tabId)
    IN IF Len(filtered) = 0 THEN current
       ELSE IF tabId = closureActive
            THEN (IF currentIndex + 1 <= Len(filtered) /\ currentIndex >= 0
                  THEN filtered[currentIndex + 1] ELSE filtered[1]).id
            ELSE current

\* closeTab: the active id after the updater ran; closureActive is the
\* activeTabId the callback closed over, current the value not yet replaced
ClosedActive(prev, tabId, closureActive, current) ==
    LET filtered == FilterOut(prev, tabId)
        currentIndex == FindIndex(prev, tabId)
        newIndex == Max(0, currentIndex - 1)
    IN IF Len(filtered) = 0 THEN current
       ELSE IF tabId = closureActive
            THEN (IF newIndex + 1 <= Len(filtered)
                  THEN filtered[newIndex + 1] ELSE filtered[1]).id
            ELSE current

\* mutant: closeTab leaving the entry of the closed tab in the store
ClosedStates_Kept(table, tabId) == table

\* closeTab: the explorer table and the selection map afterwards
ClosedStates(table, tabId) == deleteState(table, tabId)
ClosedSelection(sel, tabId) == MapDelete(sel, tabId)

closeTab(tabId) ==
    /\ Step
    /\ tabs' = ClosedTabs(tabs, tabId)
    /\ activeTabId' = ClosedActive(tabs, tabId, activeTabId, activeTabId)
    /\ states' = ClosedStates(states, tabId)
    /\ delivered' = notifyListeners(listeners, tabId)
    /\ selectionStates' = ClosedSelection(selectionStates, tabId)
    /\ PersistenceEffect(Len(FilterOut(tabs, tabId)) # 0, tabs', activeTabId',
                         states', defaultNewTabPath)
    /\ last' = Label("closeTab", tabId, "",
                     [active |-> activeTabId, count |-> Len(tabs)])
    /\ NoHistory
    /\ UNCHANGED <<defaultNewTabPath, listeners, nextId, clock>>

\* switchTab: does the handler return early
SwitchReturns(newTabId, closureActive) == newTabId = closureActive

\* mutant: switchTab stamping every tab
SwitchedTabs_TouchAll(prev, newTabId, now) ==
    [i \in 1..Len(prev) |-> [prev[i] EXCEPT !.lastActive = now]]

\* switchTab: the setTabs updater's result on prev
SwitchedTabs(prev, newTabId, now) ==
    [i \in 1..Len(prev) |->
        IF prev[i].id = newTabId THEN [prev[i] EXCEPT !.lastActive = now]
        ELSE prev[i]]

\* switchTab: the active id afterwards
SwitchedActive(prev, newTabId) == newTabId

\* the body of switchTab, called by nextTab, previousTab and selectTabAtIndex
SwitchTo(newTabId, label) ==
    /\ Step
    /\ IF SwitchReturns(newTabId, activeTabId)
       THEN UNCHANGED <<tabs, activeTabId, storage, written, clock>>
       ELSE \* Date.now() is read only for the tab whose id matches
            \E now \in IF newTabId \in IdSet(tabs) THEN clock..MaxClock ELSE {clock} :
                /\ tabs' = SwitchedTabs(tabs, newTabId, now)
                /\ activeTabId' = SwitchedActive(tabs, newTabId)
                /\ clock' = now
                /\ PersistenceEffect(TRUE, tabs', activeTabId', states,
                                     defaultNewTabPath)
    /\ delivered' = NoNotification(listeners)
    /\ last' = label
    /\ UNCHANGED <<selectionStates, defaultNewTabPath, states, listeners, nextId>>

switchTab(newTabId) ==
    /\ SwitchTo(newTabId, Label("switchTab", newTabId, "", NoArg))
    /\ NoHistory

\* updateTabTitle / updateTabPath: the setTabs updater's result on prev
RetitledTabs(prev, tabId, title) ==
    [i \in 1..Len(prev) |->
        IF prev[i].id = tabId THEN [prev[i] EXCEPT !.title = title] ELSE prev[i]]
RepathedTabs(prev, tabId, path) ==
    [i \in 1..Len(prev) |->
        IF prev[i].id = tabId THEN [prev[i] EXCEPT !.savedPath = path] ELSE prev[i]]

updateTabTitle(tabId, title) ==
    /\ Step
    /\ tabs' = RetitledTabs(tabs, tabId, title)
    /\ PersistenceEffect(TRUE, tabs', activeTabId, states, defaultNewTabPath)
    /\ delivered' = NoNotification(listeners)
    /\ last' = Label("updateTabTitle", tabId, "", NoArg)
    /\ NoHistory
    /\ UNCHANGED <<activeTabId, selectionStates, defaultNewTabPath, states,
                   listeners, nextId, clock>>

updateTabPath(tabId, path) ==
    /\ Step
    /\ tabs' = RepathedTabs(tabs, tabId, path)
    /\ PersistenceEffect(TRUE, tabs', activeTabId, states, defaultNewTabPath)
    /\ delivered' = NoNotification(listeners)
    /\ last' = Label("updateTabPath", tabId, "", NoArg)
    /\ NoHistory
    /\ UNCHANGED <<activeTabId, selectionStates, defaultNewTabPath, states,
                   listeners, nextId, clock>>

\* reorderTabs: does the updater return prev itself
ReorderKeeps(prev, activeId, overId) ==
    LET oldIndex == FindIndex(prev, activeId)
        newIndex == FindIndex(prev, overId)
    IN oldIndex = -1 \/ newIndex = -1 \/ oldIndex = newIndex

\* mutant: reorderTabs inserting one place too far
ReorderedTabs_OffByOne(prev, activeId, overId) ==
    LET oldIndex == FindIndex(prev, activeId)
        newIndex == FindIndex(prev, overId)
        removed == SubSeq(prev, 1, oldIndex) \o SubSeq(prev, oldIndex + 2, Len(prev))
        at == IF newIndex + 1 > Len(removed) THEN Len(removed) ELSE newIndex + 1
    IN IF oldIndex = -1 \/ newIndex = -1 \/ oldIndex = newIndex THEN prev
       ELSE SubSeq(removed, 1, at) \o <<prev[oldIndex + 1]>>
                \o SubSeq(removed, at + 1, Len(removed))

\* mutant: reorderTabs exchanging the two tabs
ReorderedTabs_Swap(prev, activeId, overId) ==
    LET oldIndex == FindIndex(prev, activeId)
        newIndex == FindIndex(prev, overId)
    IN IF oldIndex = -1 \/ newIndex = -1 \/ oldIndex = newIndex THEN prev
       ELSE [i \in 1..Len(prev) |->
                IF i = oldIndex + 1 THEN prev[newIndex + 1]
                ELSE IF i = newIndex + 1 THEN prev[oldIndex + 1]
                ELSE prev[i]]

\* reorderTabs: the setTabs updater's result on prev (two splices)
ReorderedTabs(prev, activeId, overId) ==
    LET oldIndex == FindIndex(prev, activeId)
        newIndex == FindIndex(prev, overId)
        removed == SubSeq(prev, 1, oldIndex) \o SubSeq(prev, oldIndex + 2, Len(prev))
    IN IF ReorderKeeps(prev, activeId, overId) THEN prev
       ELSE SubSeq(removed, 1, newIndex) \o <<prev[oldIndex + 1]>>
                \o SubSeq(removed, newIndex + 1, Len(removed))

reorderTabs(activeId, overId) ==
    /\ Step
    /\ tabs' = ReorderedTabs(tabs, activeId, overId)
    /\ PersistenceEffect(~ReorderKeeps(tabs, activeId, overId), tabs', activeTabId,
                         states, defaultNewTabPath)
    /\ delivered' = NoNotification(listeners)
    /\ last' = Label("reorderTabs", activeId, overId, NoArg)
    /\ navTrail' = <<>>
    /\ reorderUndo' =
           IF ReorderKeeps(tabs, activeId, overId) THEN NoUndo
           ELSE LET back == /\ reorderUndo # NoUndo
                            /\ activeId = reorderUndo.b
                            /\ overId = reorderUndo.a
                IN [a |-> activeId, b |-> overId, order |-> Ids(tabs),
                    back |-> back,
                    origin |-> IF back THEN reorderUndo.order ELSE <<>>]
    /\ UNCHANGED <<activeTabId, selectionStates, defaultNewTabPath, states,
                   listeners, nextId, clock>>

\* the JavaScript remainder a % n (n > 0): the sign of the dividend
JsRem(a, n) == IF a >= 0 THEN a % n ELSE 0 - ((0 - a) % n)

\* mutant: nextTab stopping at the last tab
NextIndex_NoWrap(closureTabs, closureActive) ==
    LET i == FindIndex(closureTabs, closureActive) + 1
    IN IF i >= Len(closureTabs) THEN Len(closureTabs) - 1 ELSE i

\* nextTab / previousTab: the 0-based index of the tab switched to, computed
\* from the tab list and active id the callback closed over
NextIndex(closureTabs, closureActive) ==
    JsRem(FindIndex(closureTabs, closureActive) + 1, Len(closureTabs))
PrevIndex(closureTabs, closureActive) ==
    JsRem(FindIndex(closureTabs, closureActive) - 1 + Len(closureTabs),
          Len(closureTabs))

nextTab ==
    /\ steps < MaxSteps
    /\ NextIndex(tabs, activeTabId) >= 0
    /\ SwitchTo(tabs[NextIndex(tabs, activeTabId) + 1].id,
                Label("nextTab", "", "", NoArg))
    /\ navTrail' = IF navTrail = <<>> \/ Len(navTrail) > Len(tabs)
                   THEN <<activeTabId, activeTabId'>>
                   ELSE Append(navTrail, activeTabId')
    /\ reorderUndo' = NoUndo

previousTab ==
    /\ steps < MaxSteps
    /\ PrevIndex(tabs, activeTabId) >= 0
    /\ SwitchTo(tabs[PrevIndex(tabs, activeTabId) + 1].id,
                Label("previousTab", "", "", NoArg))
    /\ NoHistory

\* selectTabAtIndex: is the index in bounds
IndexInBounds(closureTabs, index) == index >= 0 /\ index < Len(closureTabs)

selectTabAtIndex(index) ==
    /\ steps < MaxSteps
    /\ IF IndexInBounds(tabs, index)
       THEN SwitchTo(tabs[index + 1].id, Label("selectTabAtIndex", "", "", Num(index)))
       ELSE /\ Step
            /\ last' = Label("selectTabAtIndex", "", "", Num(index))
            /\ delivered' = NoNotification(listeners)
            /\ UNCHANGED <<tabs, activeTabId, selectionStates, defaultNewTabPath,
                           states, listeners, storage, written, nextId, clock>>
    /\ NoHistory

setDefaultNewTabPath(path) ==
    /\ Step
    /\ defaultNewTabPath' = path
    /\ PersistenceEffect(FALSE, tabs, activeTabId, states, defaultNewTabPath')
    /\ delivered' = NoNotification(listeners)
    /\ last' = Label("setDefaultNewTabPath", "", "", Str(path))
    /\ NoHistory
    /\ UNCHANGED <<tabs, activeTabId, selectionStates, states, listeners,
                   nextId, clock>>

(***************************************************************************)
(* Explorer state and selection state operations.                          *)
(***************************************************************************)
\* the partial states and selections callers pass
SortBySize == [sortBy |-> Str("size")]
ScrollList == [scrollTop |-> Num(40), viewMode |-> Str("list")]
ScrollNaN == [scrollTop |-> NaN]
Partials == {SortBySize}
StorePartials == {SortBySize, ScrollList}
Selections == {<<"f1">>}

getExplorerState(tabId) == getState(states, tabId)

updateExplorerState(tabId, updates) ==
    /\ Step
    /\ states' = updateState(states, tabId, updates)
    /\ delivered' = notifyListeners(listeners, tabId)
    /\ last' = Label("updateExplorerState", tabId, "", Obj(updates))
    /\ NoHistory
    /\ UNCHANGED <<tabs, activeTabId, selectionStates, defaultNewTabPath,
                   listeners, storage, written, nextId, clock>>

\* selectionStates.get(tabId) ?? []
SelectionIds(sel, tabId) == IF tabId \in DOMAIN sel THEN sel[tabId] ELSE <<>>
getSelectionIds(tabId) == SelectionIds(selectionStates, tabId)

updateSelectionIds(tabId, fileIds) ==
    /\ Step
    /\ selectionStates' = MapSet(selectionStates, tabId, fileIds)
    /\ delivered' = NoNotification(listeners)
    /\ last' = Label("updateSelectionIds", tabId, "", NoArg)
    /\ NoHistory
    /\ UNCHANGED <<tabs, activeTabId, defaultNewTabPath, states, listeners,
                   storage, written, nextId, clock>>

\* a component calling useTabExplorerState(tabId) mounts / unmounts:
\* ExplorerStateStore.subscribe and the function it returns
subscribe(ls, tabId) == ls \cup {tabId}
unsubscribe(ls, tabId) == ls \ {tabId}

Subscribe(tabId) ==
    /\ Step
    /\ tabId \notin listeners
    /\ listeners' = subscribe(listeners, tabId)
    /\ delivered' = NoNotification(listeners')
    /\ last' = Label("subscribe", tabId, "", NoArg)
    /\ NoHistory
    /\ UNCHANGED <<tabs, activeTabId, selectionStates, defaultNewTabPath, states,
                   storage, written, nextId, clock>>

Unsubscribe(tabId) ==
    /\ Step
    /\ tabId \in listeners
    /\ listeners' = unsubscribe(listeners, tabId)
    /\ delivered' = NoNotification(listeners')
    /\ last' = Label("unsubscribe", tabId, "", NoArg)
    /\ NoHistory
    /\ UNCHANGED <<tabs, activeTabId, selectionStates, defaultNewTabPath, states,
                   storage, written, nextId, clock>>

(***************************************************************************)
(* Specifications.                                                         *)
(***************************************************************************)
\* the operations that write the tab list, called one after the other
Next ==
    \/ \E args \in CreateArgs : createTab(args[1], args[2])
    \/ \E tabId \in ArgIds : closeTab(tabId)
    \/ \E tabId \in ArgIds : switchTab(tabId)
    \/ \E tabId \in ArgIds, title \in NewTitles : updateTabTitle(tabId, title)
    \/ \E tabId \in ArgIds, path \in NewPaths : updateTabPath(tabId, path)
    \/ \E a \in ArgIds, b \in ArgIds : reorderTabs(a, b)
    \/ \E path \in NewPaths : setDefaultNewTabPath(path)

Spec == Init /\ [][Next]_vars

\* moving between the tabs: switchTab and the three handlers that call it
NextNav ==
    \/ \E args \in CreateArgs : createTab(args[1], args[2])
    \/ \E tabId \in ArgIds : closeTab(tabId)
    \/ \E tabId \in ArgIds : switchTab(tabId)
    \/ nextTab
    \/ previousTab
    \/ \E index \in (0 - 1)..MaxIds : selectTabAtIndex(index)

SpecNav == Init /\ [][NextNav]_vars

\* the two stores and their subscribers, with tabs opened and closed
NextStore ==
    \/ \E args \in CreateArgs : createTab(args[1], args[2])
    \/ \E tabId \in StoreArgIds : closeTab(tabId)
    \/ \E tabId \in StoreArgIds, updates \in StorePartials :
           updateExplorerState(tabId, updates)
    \/ \E tabId \in KnownIds, fileIds \in Selections : updateSelectionIds(tabId, fileIds)
    \/ \E tabId \in StoreArgIds : Subscribe(tabId)
    \/ \E tabId \in StoreArgIds : Unsubscribe(tabId)

SpecStore == Init /\ [][NextStore]_vars

\* persistence and restart
NextPersist ==
    \/ \E args \in CreateArgs : createTab(args[1], args[2])
    \/ \E tabId \in ArgIds : closeTab(tabId)
    \/ \E tabId \in ArgIds : switchTab(tabId)
    \/ \E path \in NewPaths : setDefaultNewTabPath(path)
    \/ \E tabId \in ArgIds, updates \in Partials \cup {ScrollNaN} :
           updateExplorerState(tabId, updates)
    \/ \E tabId \in KnownIds, fileIds \in Selections : updateSelectionIds(tabId, fileIds)
    \/ Restart

SpecPersist == Init /\ [][NextPersist]_vars


(***************************************************************************)
(* Claims about the operations on the tab list (specification Spec).       *)
(***************************************************************************)
\* C1: after initialisation and after every sequence of Tab Manager
\* operations the tab list holds at least one tab.
C1_TabListNeverEmpty == Len(tabs) >= 1

\* closeTab was called on the only tab of the list
C1_Witness ==
    /\ last.op = "closeTab"
    /\ last.arg.count = 1
    /\ Len(tabs) = 1
    /\ last.id = tabs[1].id

\* C3 (as stated): closeTab, switchTab, updateTabTitle, updateTabPath and
\* reorderTabs called with an id that is not the id of a tab of the list
\* leave the tab list and the active-tab pointer unchanged.
C3_UnknownIdIsNoOp ==
    [][(/\ last'.op \in {"closeTab", "switchTab", "updateTabTitle",
                         "updateTabPath", "reorderTabs"}
        /\ \/ last'.id \notin IdSet(tabs)
           \/ last'.op = "reorderTabs" /\ last'.id2 \notin IdSet(tabs))
       => tabs' = tabs /\ activeTabId' = activeTabId]_vars

\* C4: closeTab of the active tab, with at least two tabs in the list, makes
\* the tab before it active, or the first tab of the resulting list when the
\* closed tab was the first; the new active id is the id of a tab of the
\* resulting list.
C4_CloseActiveTab ==
    [][(/\ last'.op = "closeTab"
        /\ last'.id = activeTabId
        /\ activeTabId \in IdSet(tabs)
        /\ Len(tabs) >= 2)
       => LET pos == CHOOSE i \in 1..Len(tabs) : tabs[i].id = activeTabId
          IN /\ activeTabId' = IF pos > 1 THEN tabs[pos - 1].id ELSE tabs'[1].id
             /\ activeTabId' \in IdSet(tabs')
             /\ activeTabId \notin IdSet(tabs')]_vars

\* the active tab of a list of at least two tabs was closed
C4_Witness ==
    /\ last.op = "closeTab"
    /\ last.arg.active = last.id
    /\ last.arg.count >= 2
    /\ Len(tabs) = last.arg.count - 1

\* C5: createTab appends exactly one tab, leaves the prior tabs and their
\* order as they were, gives the new tab an id no prior tab has, makes it
\* the active tab, and leaves its explorer state equal to the default
\* object and its selection empty.
C5_CreateTab ==
    [][last'.op = "createTab"
       => LET newId == tabs'[Len(tabs')].id
          IN /\ Len(tabs') = Len(tabs) + 1
             /\ SubSeq(tabs', 1, Len(tabs)) = tabs
             /\ newId \notin IdSet(tabs)
             /\ newId = last'.id
             /\ activeTabId' = newId
             /\ getState(states', newId) = DEFAULT_EXPLORER_STATE
             /\ newId \in DOMAIN selectionStates'
             /\ selectionStates'[newId] = <<>>]_vars

\* a tab was created next to tabs that were there before
C5_Witness ==
    /\ last.op = "createTab"
    /\ Len(tabs) >= 2
    /\ activeTabId = tabs[Len(tabs)].id

\* are the ids a and b next to each other in the order
Adjacent(order, a, b) ==
    \E i \in 1..(Len(order) - 1) :
        \/ order[i] = a /\ order[i + 1] = b
        \/ order[i] = b /\ order[i + 1] = a

\* reorderTabs with an id of no tab, or the same id twice
ReorderNoOp ==
    [][(/\ last'.op = "reorderTabs"
        /\ \/ last'.id \notin IdSet(tabs)
           \/ last'.id2 \notin IdSet(tabs)
           \/ last'.id = last'.id2)
       => tabs' = tabs]_vars

\* C6 (as stated): reorderTabs(a, b) followed by reorderTabs(b, a) restores
\* the original order for all distinct ids a and b of the list; with an
\* unknown id or a = b the order is unchanged.
C6_ReorderRoundTrip ==
    /\ [](reorderUndo.back => Ids(tabs) = reorderUndo.origin)
    /\ ReorderNoOp

\* C6 (amended): reorderTabs(a, b) followed by reorderTabs(b, a) restores
\* the original order when a and b are next to each other in the list; with
\* an unknown id or a = b the order is unchanged.
C6_ReorderRoundTripAdjacent ==
    /\ [](reorderUndo.back /\ Adjacent(reorderUndo.origin, reorderUndo.a, reorderUndo.b)
            => Ids(tabs) = reorderUndo.origin)
    /\ ReorderNoOp

\* reorderTabs(a, b) and then reorderTabs(b, a) were called on neighbours
C6_Witness ==
    /\ last.op = "reorderTabs"
    /\ reorderUndo.back
    /\ Adjacent(reorderUndo.origin, reorderUndo.a, reorderUndo.b)
    /\ Len(tabs) >= 3

\* the position (1-based) of the tab with the id in a list that has it
PositionOf(list, tabId) == CHOOSE i \in 1..Len(list) : list[i].id = tabId

\* C15: switchTab(id) with the id of a tab changes nothing when that tab is
\* active already; otherwise it makes id the active id and gives that tab a
\* new lastActive, and every other tab, every other field of that tab, the
\* order of the tabs, the explorer store and the selection stay as they are.
C15_SwitchTabFrame ==
    [][(last'.op = "switchTab" /\ last'.id \in IdSet(tabs))
       => IF last'.id = activeTabId
          THEN UNCHANGED <<tabs, activeTabId, states, selectionStates,
                           defaultNewTabPath, storage>>
          ELSE /\ activeTabId' = last'.id
               /\ Len(tabs') = Len(tabs)
               /\ \A i \in 1..Len(tabs) :
                      IF tabs[i].id = last'.id
                      THEN /\ tabs'[i] = [tabs[i] EXCEPT !.lastActive = clock']
                           /\ clock' >= clock
                      ELSE tabs'[i] = tabs[i]
               /\ UNCHANGED <<states, selectionStates, defaultNewTabPath>>]_vars

\* switchTab moved the active pointer to another tab, whose lastActive is
\* now later than that of the tab it left
C15_Witness ==
    /\ last.op = "switchTab"
    /\ Len(tabs) >= 2
    /\ activeTabId = last.id
    /\ last.id \in IdSet(tabs)
    /\ tabs[PositionOf(tabs, last.id)].lastActive = clock
    /\ \E i \in 1..Len(tabs) : tabs[i].lastActive < clock

\* C16: reorderTabs(movedId, targetId) with the ids of two different tabs
\* leaves the moved tab at the position the target had, keeps the other
\* tabs in the order they had, keeps every tab as it was, and leaves the
\* active-tab pointer alone.
C16_ReorderMovesToTarget ==
    [][(/\ last'.op = "reorderTabs"
        /\ last'.id \in IdSet(tabs)
        /\ last'.id2 \in IdSet(tabs)
        /\ last'.id # last'.id2)
       => /\ Len(tabs') = Len(tabs)
          /\ tabs'[PositionOf(tabs, last'.id2)] = tabs[PositionOf(tabs, last'.id)]
          /\ FilterOut(tabs', last'.id) = FilterOut(tabs, last'.id)
          /\ activeTabId' = activeTabId]_vars

\* the first of three tabs was moved to the place of the last
C16_Witness ==
    /\ last.op = "reorderTabs"
    /\ Len(tabs) = 3
    /\ reorderUndo # NoUndo
    /\ reorderUndo.order[1] = last.id
    /\ reorderUndo.order[3] = last.id2
    /\ tabs[3].id = last.id

(***************************************************************************)
(* Claims about moving between the tabs (specification SpecNav).           *)
(***************************************************************************)
\* the tab after / before the one at position pos (1-based) of a list,
\* going round
After(list, pos) == IF pos = Len(list) THEN list[1] ELSE list[pos + 1]
Before(list, pos) == IF pos = 1 THEN list[Len(list)] ELSE list[pos - 1]

\* C7: with the active tab in the list, nextTab makes the tab after it
\* active and previousTab the tab before it, going round in both
\* directions; nextTab called as many times in a row as there are tabs
\* returns activeTabId to where it started, and previousTab undoes nextTab.
C7_CyclicNavigation ==
    [][/\ (last'.op = "nextTab" /\ activeTabId \in IdSet(tabs))
          => activeTabId' =
                 After(tabs, CHOOSE i \in 1..Len(tabs) : tabs[i].id = activeTabId).id
       /\ (last'.op = "previousTab" /\ activeTabId \in IdSet(tabs))
          => activeTabId' =
                 Before(tabs, CHOOSE i \in 1..Len(tabs) : tabs[i].id = activeTabId).id
       /\ (/\ last'.op = "nextTab"
           /\ Len(navTrail') = Len(tabs') + 1
           /\ navTrail'[1] \in IdSet(tabs'))
          => activeTabId' = navTrail'[1]
       /\ (/\ last.op = "nextTab"
           /\ last'.op = "previousTab"
           /\ navTrail[Len(navTrail) - 1] \in IdSet(tabs))
          => activeTabId' = navTrail[Len(navTrail) - 1]]_vars

\* nextTab was called as many times in a row as there are tabs, two at
\* least, and went round
C7_Witness ==
    /\ last.op = "nextTab"
    /\ Len(tabs) >= 2
    /\ Len(navTrail) = Len(tabs) + 1
    /\ navTrail[1] \in IdSet(tabs)
    /\ navTrail[2] # navTrail[1]
    /\ activeTabId = navTrail[1]


(***************************************************************************)
(* Claims about the two stores (specification SpecStore).                  *)
(***************************************************************************)
\* C2 (as stated): closeTab on the only tab of the list changes nothing: the
\* tab list, the active-tab pointer, that tab's explorer state and that
\* tab's selection are what they were before the call.
C2_CloseOnlyTabIsNoOp ==
    [][(/\ last'.op = "closeTab"
        /\ Len(tabs) = 1
        /\ last'.id = tabs[1].id)
       => /\ tabs' = tabs
          /\ activeTabId' = activeTabId
          /\ getState(states', last'.id) = getState(states, last'.id)
          /\ SelectionIds(selectionStates', last'.id)
                 = SelectionIds(selectionStates, last'.id)]_vars

\* C8: updateExplorerState(id, partial) sets every field named in partial
\* to the value supplied, leaves every other field of id's state as it was
\* (as in the default when id had no entry), and leaves the explorer state
\* of every other id as it was.
C8_PartialMerge ==
    [][last'.op = "updateExplorerState"
       => LET id == last'.id
              partial == last'.arg.v
              before == getState(states, id)
              after == getState(states', id)
          IN /\ \A f \in DOMAIN partial : f \in DOMAIN after /\ after[f] = partial[f]
             /\ \A f \in (DOMAIN before) \ (DOMAIN partial) :
                    f \in DOMAIN after /\ after[f] = before[f]
             /\ DOMAIN after = (DOMAIN before) \cup (DOMAIN partial)
             /\ (DOMAIN states') \ {id} = (DOMAIN states) \ {id}
             /\ \A other \in (DOMAIN states) \ {id} : states'[other] = states[other]]_vars

\* a tab whose state was already changed was updated, next to another tab
C8_Witness ==
    /\ last.op = "updateExplorerState"
    /\ last.arg.v = SortBySize
    /\ last.id \in DOMAIN states
    /\ states[last.id].scrollTop = Num(40)
    /\ states[last.id].sortBy = Str("size")
    /\ \E other \in (DOMAIN states) \ {last.id} : states[other] = DEFAULT_EXPLORER_STATE

\* the operations that set, update or delete the explorer state of last.id
StoreChanges == {"createTab", "closeTab", "updateExplorerState"}

RECURSIVE JsonSafe(_)
JsonSafe(val) ==
    CASE val.t \in {"nan", "undefined"} -> FALSE
      [] val.t = "array" -> \A i \in 1..Len(val.v) : JsonSafe(val.v[i])
      [] val.t = "object" -> \A f \in DOMAIN val.v : JsonSafe(val.v[f])
      [] OTHER -> TRUE

\* the snapshots the claim is about: a tab list that is not empty and an
\* active id that is the id of one of its tabs
Restorable(snapshot) ==
    /\ Len(snapshot.tabs) > 0
    /\ snapshot.activeTabId \in IdSet(snapshot.tabs)

\* the tab list, active id and explorer table are those of the snapshot
Reconstructs(tabList, active, table, snapshot) ==
    /\ tabList = snapshot.tabs
    /\ active = snapshot.activeTabId
    /\ table = snapshot.explorerStates

\* C10 (as stated): starting up from the stored form of a persisted
\* snapshot reconstructs the tab list, active id and explorer-state table
\* that were persisted, for every snapshot with a tab list that is not
\* empty and an active id that is the id of one of its tabs.
C10_RoundTrip ==
    [][(last'.op = "restart" /\ Restorable(written))
       => Reconstructs(tabs', activeTabId', states', written)]_vars

\* C10 (amended): the same for every such snapshot whose explorer states
\* hold only values JSON can write (no NaN, no undefined).
C10_RoundTripJsonSafe ==
    [][(/\ last'.op = "restart"
        /\ Restorable(written)
        /\ \A id \in DOMAIN written.explorerStates :
               JsonSafe(Obj(written.explorerStates[id])))
       => Reconstructs(tabs', activeTabId', states', written)]_vars

\* the application was restarted with two tabs, the second one active, and
\* an explorer state that is not the default
C10_Witness ==
    /\ last.op = "restart"
    /\ Len(tabs) >= 2
    /\ activeTabId = tabs[2].id
    /\ \E id \in DOMAIN states : states[id].sortBy = Str("size")

\* the explorer-state table as the slot would hold it if it were written now
StoredTable(table) == JsonRoundTrip(Obj([id \in DOMAIN table |-> Obj(table[id])]))

\* C11 (as stated): with no persistence effect pending (there is none between
\* two operations), the explorerStates table of the stored snapshot equals
\* the content of the Explorer State Store, and after a restart the explorer
\* state of every tab is what it was before the restart.
C11_StoreAlwaysPersisted ==
    /\ [](Prop(storage, "explorerStates") = StoredTable(states))
    /\ [][last'.op = "restart"
          => \A i \in 1..Len(tabs) :
                 getState(states', tabs[i].id) = getState(states, tabs[i].id)]_vars

(***************************************************************************)
(* Start-up from a slot left by an earlier session, or by someone else     *)
(* (specification SpecBoot).                                               *)
(***************************************************************************)
\* the tabs an earlier session had open: two tabs with the first two ids
StoredTabList ==
    <<[id |-> Uuid(1), title |-> T_Overview, icon |-> Null, isPinned |-> FALSE,
       lastActive |-> 0, savedPath |-> S_Root],
      [id |-> Uuid(2), title |-> T_Favorites, icon |-> Null, isPinned |-> FALSE,
       lastActive |-> 0, savedPath |-> S_Favorites]>>
StoredTabs == Arr([i \in 1..Len(StoredTabList) |-> TabToJs(StoredTabList[i])])

\* the explorer states of that session: the first tab sorted by size
StoredStates ==
    Obj([id \in IdSet(StoredTabList) |->
            Obj(IF id = Uuid(1) THEN Spread(DEFAULT_EXPLORER_STATE, SortBySize)
                ELSE DEFAULT_EXPLORER_STATE)])

\* a JSON document with the four properties of PersistedState; a property
\* given as Undefined is absent from the document
Stored(tabList, active, table, defaultPath) ==
    JsonRoundTrip(Obj([tabs |-> tabList, activeTabId |-> active,
                       explorerStates |-> table, defaultNewTabPath |-> defaultPath]))

\* what the slot may hold at start-up
StoredSlots ==
    {NoItem, CorruptText, Null,
     Stored(StoredTabs, Str(Uuid(2)), StoredStates, Str(S_Favorites)),
     Stored(StoredTabs, Str(GhostId), StoredStates, Str(S_Favorites)),
     Stored(StoredTabs, Str(""), StoredStates, Str(S_Favorites)),
     Stored(StoredTabs, Str(Uuid(2)), StoredStates, Undefined),
     Stored(Arr(<<>>), Str(Uuid(2)), StoredStates, Str(S_Favorites)),
     Stored(StoredStates, Str(Uuid(2)), StoredStates, Str(S_Favorites)),
     Stored(StoredTabs, Num(2), StoredStates, Str(S_Favorites)),
     Stored(StoredTabs, Str(Uuid(2)), Null, Str(S_Favorites)),
     Stored(StoredTabs, Str(Uuid(2)), Undefined, Str(S_Favorites)),
     Stored(StoredTabs, Str(Uuid(2)), Str(S_Root), Str(S_Favorites)),
     Stored(StoredTabs, Str(Uuid(2)), Arr(<<>>), Str(S_Favorites))}

\* the first mount of a session; the ids of StoredTabList are taken
InitBoot == \E slot \in StoredSlots : Mount(slot, Len(StoredTabList) + 1, 0)

NextBoot ==
    \/ \E args \in CreateArgs : createTab(args[1], args[2])
    \/ \E tabId \in ArgIds : closeTab(tabId)
    \/ \E tabId \in ArgIds : switchTab(tabId)
    \/ Restart

SpecBoot == InitBoot /\ [][NextBoot]_vars

\* the slot the last mount read, if the last operation was a mount
Mounted == last.op \in {"mount", "restart"}

\* the ids that occur as tab ids or as keys of the explorer table of a slot
SlotIds(slot) ==
    (IF Prop(slot, "tabs").t = "array"
     THEN {Prop(slot, "tabs").v[i].v.id.v : i \in 1..Len(Prop(slot, "tabs").v)}
     ELSE {})
    \cup (IF Prop(slot, "explorerStates").t = "object"
          THEN DOMAIN Prop(slot, "explorerStates").v
          ELSE {})

\* one synthesized tab at '/', active, with an id the slot does not know
OneFreshTab(slot) ==
    /\ Len(tabs) = 1
    /\ tabs[1].savedPath = S_Root
    /\ tabs[1].title = T_Overview
    /\ tabs[1].id \notin SlotIds(slot)
    /\ activeTabId = tabs[1].id

\* the validation as the specification words it: a stored value without a
\* tabs sequence, a string activeTabId and a keyed explorerStates mapping
FailsValidation(slot) ==
    /\ slot # NoItem
    /\ \/ slot.t # "object"
       \/ Prop(slot, "tabs").t # "array"
       \/ Prop(slot, "activeTabId").t # "string"
       \/ Prop(slot, "explorerStates").t # "object"

\* C12 (as stated): a stored value that fails validation is discarded as a
\* whole: start-up yields one synthesized tab at '/', that tab active, the
\* default new-tab path '/', and an explorer store that holds nothing of the
\* stored value.
C12_InvalidSnapshotDiscarded ==
    (Mounted /\ FailsValidation(last.arg))
        => /\ OneFreshTab(last.arg)
           /\ defaultNewTabPath = S_Root
           /\ states = MapSet(EmptyMap, tabs[1].id, DEFAULT_EXPLORER_STATE)

\* is there a valid snapshot in the slot, reading "object-shaped" as
\* typeof ... === 'object' does (null and arrays included)
ValidSnapshot(slot) ==
    /\ slot.t = "object"
    /\ Prop(slot, "tabs").t = "array"
    /\ Len(Prop(slot, "tabs").v) > 0
    /\ Prop(slot, "activeTabId").t = "string"
    /\ Prop(slot, "explorerStates").t \in {"object", "array", "null"}

\* C19 (as stated): without a valid snapshot in the slot the initial state
\* is one tab at '/' with a fresh id, that tab active, and the Explorer
\* State Store holds a default entry for the id of that tab.
C19_FreshStartSeedsStore ==
    (Mounted /\ ~ValidSnapshot(last.arg))
        => /\ OneFreshTab(last.arg)
           /\ tabs[1].id \in DOMAIN states
           /\ states[tabs[1].id] = DEFAULT_EXPLORER_STATE

\* C20: when the tab list of the slot is adopted, the initial activeTabId is
\* the stored active id if that is the id of a stored tab and the id of the
\* first tab otherwise; either way it is the id of a tab of the list.
C20_InitialActiveIdExists ==
    (Mounted /\ AdoptsTabs(last.arg))
        => LET stored == Prop(last.arg, "activeTabId").v
           IN /\ tabs = [i \in 1..Len(last.arg.v.tabs.v) |->
                            TabFromJs(last.arg.v.tabs.v[i])]
              /\ activeTabId = IF stored \in IdSet(tabs) THEN stored ELSE tabs[1].id
              /\ activeTabId \in IdSet(tabs)

\* a tab list was adopted whose stored active id is the id of none of its tabs
C20_Witness ==
    /\ Mounted
    /\ AdoptsTabs(last.arg)
    /\ Len(tabs) >= 2
    /\ Prop(last.arg, "activeTabId").v \notin IdSet(tabs) \cup {""}
    /\ activeTabId = tabs[1].id

(***************************************************************************)
(* A storage backend that refuses writes (specification SpecFail).         *)
(***************************************************************************)
\* the backend starts to throw on setItem (quota exceeded), or stops to
BackendFills ==
    /\ steps < MaxSteps
    /\ steps' = steps + 1
    /\ backend = "ok"
    /\ backend' = "full"
    /\ delivered' = NoNotification(listeners)
    /\ last' = Label("backendFills", "", "", NoArg)
    /\ NoHistory
    /\ UNCHANGED <<tabs, activeTabId, selectionStates, defaultNewTabPath, states,
                   listeners, storage, written, nextId, clock>>
BackendRecovers ==
    /\ steps < MaxSteps
    /\ steps' = steps + 1
    /\ backend = "full"
    /\ backend' = "ok"
    /\ delivered' = NoNotification(listeners)
    /\ last' = Label("backendRecovers", "", "", NoArg)
    /\ NoHistory
    /\ UNCHANGED <<tabs, activeTabId, selectionStates, defaultNewTabPath, states,
                   listeners, storage, written, nextId, clock>>

NextFail ==
    \/ \E args \in CreateArgs : createTab(args[1], args[2])
    \/ \E tabId \in ArgIds : closeTab(tabId)
    \/ \E tabId \in ArgIds : switchTab(tabId)
    \/ \E path \in NewPaths : setDefaultNewTabPath(path)
    \/ BackendFills
    \/ BackendRecovers

SpecFail == Init /\ [][NextFail]_vars

\* the in-memory state as the slot would hold it if it were written now
StoredNow == savePersistedState(
                 PersistedState(tabs, activeTabId, getAllStates(states),
                                defaultNewTabPath))

\* C13: an operation whose write the backend refuses completes: the slot
\* keeps what it held, the snapshot handed to the refused write is the
\* in-memory state the operation left (createTab has appended and activated
\* its tab and seeded both stores, closeTab has removed its tab and its
\* entries, switchTab has moved the active pointer, setDefaultNewTabPath has
\* set the path); the write is not made later by anything but the next
\* persistence effect, and that one stores the whole in-memory state.
C13_WriteFailureSwallowed ==
    [][/\ (backend = "full" /\ backend' = "full")
          => /\ storage' = storage
             /\ written' # written
                  => written' = Snapshot(tabs', activeTabId', states',
                                         defaultNewTabPath')
             /\ last'.op = "createTab"
                  => /\ Len(tabs') = Len(tabs) + 1
                     /\ SubSeq(tabs', 1, Len(tabs)) = tabs
                     /\ activeTabId' = tabs'[Len(tabs')].id
                     /\ states' = setState(states, activeTabId', DEFAULT_EXPLORER_STATE)
                     /\ selectionStates' = MapSet(selectionStates, activeTabId', <<>>)
             /\ (last'.op = "closeTab" /\ last'.id \in IdSet(tabs) /\ Len(tabs) > 1)
                  => /\ Ids(tabs') = SelectSeq(Ids(tabs), LAMBDA x : x # last'.id)
                     /\ activeTabId' # last'.id
                     /\ last'.id \notin DOMAIN states'
                     /\ last'.id \notin DOMAIN selectionStates'
             /\ (last'.op = "switchTab" /\ last'.id \in IdSet(tabs))
                  => activeTabId' = last'.id /\ Ids(tabs') = Ids(tabs)
             /\ last'.op = "setDefaultNewTabPath"
                  => defaultNewTabPath' \in NewPaths /\ tabs' = tabs
       /\ last'.op \in {"backendFills", "backendRecovers"} => storage' = storage
       /\ (backend = "ok" /\ backend' = "ok" /\ written' # written)
          => storage' = StoredNow']_vars

\* a tab was created while the backend refused writes: the slot still holds
\* the one tab it held before
C13_Witness ==
    /\ last.op = "createTab"
    /\ backend = "full"
    /\ Len(tabs) = 2
    /\ Len(Prop(storage, "tabs").v) = 1
    /\ storage # StoredNow

(***************************************************************************)
(* More claims about persistence and restart (specification SpecPersist).  *)
(***************************************************************************)
\* the property names of the snapshot and of the tabs in it
SnapshotKeys == {"tabs", "activeTabId", "explorerStates", "defaultNewTabPath"}
TabKeys == {"id", "title", "icon", "isPinned", "lastActive", "savedPath"}

\* C14: the slot never holds selection data (the stored document has the
\* four properties of PersistedState and its tabs the six of Tab, none of
\* them the selection), and after a restart getSelectionIds is empty for
\* every tab id, whatever was selected before.
C14_SelectionNeverPersisted ==
    /\ [](/\ DOMAIN storage.v \subseteq SnapshotKeys
          /\ \A i \in 1..Len(storage.v.tabs.v) :
                 DOMAIN storage.v.tabs.v[i].v \subseteq TabKeys)
    /\ [][last'.op = "restart"
          => \A id \in IdSet(tabs) \cup IdSet(tabs') \cup ArgIds :
                 SelectionIds(selectionStates', id) = <<>>]_vars

\* a file was selected in a tab of a list of two whose snapshot is in the
\* slot (a restart is the next thing that can happen)
C14_Witness ==
    /\ last.op = "updateSelectionIds"
    /\ \E id \in IdSet(tabs) : SelectionIds(selectionStates, id) # <<>>
    /\ Len(tabs) >= 2
    /\ storage = StoredNow

(***************************************************************************)
(* The Title Deriver applied to pathnames and query strings as the router  *)
(* and the callers of createTab build them (specification SpecTitle).      *)
(***************************************************************************)
\* encodeURIComponent, for the characters of the texts below
RECURSIVE UriEncode(_)
UriEncode(s) ==
    IF s = <<>> THEN <<>>
    ELSE (IF s[1] = "{" THEN <<"%", "7", "B">>
          ELSE IF s[1] = "}" THEN <<"%", "7", "D">>
          ELSE IF s[1] = "\"" THEN <<"%", "2", "2">>
          ELSE IF s[1] = ":" THEN <<"%", "3", "A">>
          ELSE IF s[1] = "/" THEN <<"%", "2", "F">>
          ELSE IF s[1] = "%" THEN <<"%", "2", "5">>
          ELSE IF s[1] = " " THEN <<"%", "2", "0">>
          ELSE <<s[1]>>) \o UriEncode(Tail(s))

\* 'path=' + encodeURIComponent(JSON.stringify({Physical: {path: fullPath}}))
PathParam(fullPath) ==
    <<"p", "a", "t", "h", "=">> \o UriEncode(J_Open \o fullPath \o J_Close)

\* the pathnames: text is the pathname, rule the rule of the Title Deriver
\* it falls under, name the title of the route or the id of the tag
PathnameInputs ==
    {[text |-> <<"/">>, rule |-> "route", name |-> <<"O", "v", "e", "r", "v", "i", "e", "w">>],
     [text |-> <<"/", "f", "a", "v", "o", "r", "i", "t", "e", "s">>, rule |-> "route", name |-> <<"F", "a", "v", "o", "r", "i", "t", "e", "s">>],
     [text |-> <<"/", "r", "e", "c", "e", "n", "t", "s">>, rule |-> "route", name |-> <<"R", "e", "c", "e", "n", "t", "s">>],
     [text |-> <<"/", "f", "i", "l", "e", "-", "k", "i", "n", "d", "s">>, rule |-> "route", name |-> <<"F", "i", "l", "e", " ", "K", "i", "n", "d", "s">>],
     [text |-> <<"/", "s", "e", "a", "r", "c", "h">>, rule |-> "route", name |-> <<"S", "e", "a", "r", "c", "h">>],
     [text |-> <<"/", "j", "o", "b", "s">>, rule |-> "route", name |-> <<"J", "o", "b", "s">>],
     [text |-> <<"/", "d", "a", "e", "m", "o", "n">>, rule |-> "route", name |-> <<"D", "a", "e", "m", "o", "n">>],
     [text |-> <<"/", "t", "a", "g", "/", "a", "b", "c", "d", "e", "f", "1", "2", "3", "4">>, rule |-> "tag", name |-> <<"a", "b", "c", "d", "e", "f", "1", "2", "3", "4">>],
     [text |-> <<"/", "t", "a", "g", "/", "a", "b", "c">>, rule |-> "tag", name |-> <<"a", "b", "c">>],
     [text |-> <<"/", "t", "a", "g", "/">>, rule |-> "tag", name |-> <<>>],
     [text |-> <<"/", "e", "x", "p", "l", "o", "r", "e", "r">>, rule |-> "explorer", name |-> <<>>],
     [text |-> <<"/", "s", "e", "t", "t", "i", "n", "g", "s">>, rule |-> "other", name |-> <<>>],
     [text |-> <<"/", "f", "a", "v", "o", "r", "i", "t", "e", "s", "/">>, rule |-> "other", name |-> <<>>],
     [text |-> <<"/", "t", "a", "g", "s">>, rule |-> "other", name |-> <<>>],
     [text |-> <<>>, rule |-> "other", name |-> <<>>]}

\* the query strings: text is the string, device says that it asks for the
\* device view, segment is the last segment of the Physical path it carries
\* that is not empty (<<>> when it carries no such path or segment)
SearchInput(text, device, segment) ==
    [text |-> text, device |-> device, segment |-> segment]
SearchInputs ==
    {SearchInput(<<>>, FALSE, <<>>),
     SearchInput(<<"?">>, FALSE, <<>>),
     SearchInput(<<"?", "v", "i", "e", "w", "=", "d", "e", "v", "i", "c", "e">>, TRUE, <<>>),
     SearchInput(<<"v", "i", "e", "w", "=", "d", "e", "v", "i", "c", "e">>, TRUE, <<>>),
     SearchInput(<<"?", "v", "i", "e", "w", "=", "g", "r", "i", "d">>, FALSE, <<>>),
     SearchInput(<<"?", "v", "i", "e", "w", "=", "d", "e", "v", "i", "c", "e", "&">> \o PathParam(<<"/", "h", "o", "m", "e", "/", "d", "o", "c", "s">>), TRUE, <<"d", "o", "c", "s">>),
     SearchInput(<<"?", "v", "i", "e", "w", "=", "g", "r", "i", "d", "&">> \o PathParam(<<"/", "h", "o", "m", "e", "/", "d", "o", "c", "s">>), FALSE, <<"d", "o", "c", "s">>),
     SearchInput(<<"?">> \o PathParam(<<"/", "h", "o", "m", "e", "/", "d", "o", "c", "s">>), FALSE, <<"d", "o", "c", "s">>),
     SearchInput(<<"?">> \o PathParam(<<"/", "h", "o", "m", "e", "/", "m", "y", " ", "f", "i", "l", "e", "s", "/">>), FALSE, <<"m", "y", " ", "f", "i", "l", "e", "s">>),
     SearchInput(<<"?">> \o PathParam(<<"/">>), FALSE, <<>>),
     SearchInput(<<"?">> \o PathParam(<<>>), FALSE, <<>>),
     SearchInput(<<"?">> \o PathParam(<<"/", "x", "/", "a", "%", "2", "F", "b">>), FALSE, <<"a", "%", "2", "F", "b">>),
     SearchInput(<<"?", "p", "a", "t", "h", "=", "n", "o", "t", "j", "s", "o", "n">>, FALSE, <<>>),
     SearchInput(<<"?", "p", "a", "t", "h", "=", "%", "E", "0">>, FALSE, <<>>)}

\* deriveTitleFromPath is called; it reads and writes no state
DeriveTitle(p, s) ==
    /\ Step
    /\ last' = Label("deriveTitleFromPath", "", "",
                     [pathname |-> p, search |-> s,
                      title |-> deriveTitleFromPath(p.text, s.text)])
    /\ delivered' = NoNotification(listeners)
    /\ NoHistory
    /\ UNCHANGED <<tabs, activeTabId, selectionStates, defaultNewTabPath, states,
                   listeners, storage, written, nextId, clock>>

NextTitle == \E p \in PathnameInputs, s \in SearchInputs : DeriveTitle(p, s)

SpecTitle == Init /\ [][NextTitle]_vars

\* C17 (as stated): a pathname of the route table gives the name of the
\* route; otherwise a '/tag/<id>' pathname gives 'Tag: ', the first 8
\* characters of the id and '...'; otherwise '/explorer' with a query that
\* is not empty gives 'This Device' for view=device, else the last segment
\* of the Physical path that is not empty, else 'Explorer'; every other
\* input gives 'Spacedrive'.
C17_TitleRules ==
    last.op = "deriveTitleFromPath"
        => LET p == last.arg.pathname
               s == last.arg.search
           IN last.arg.title =
                  IF p.rule = "route" THEN p.name
                  ELSE IF p.rule = "tag"
                       THEN T_TagColon \o SubSeq(p.name, 1, IF Len(p.name) < 8 THEN Len(p.name) ELSE 8) \o T_Dots
                  ELSE IF p.rule = "explorer" /\ s.text # <<>>
                       THEN IF s.device THEN T_ThisDevice
                            ELSE IF s.segment # <<>> THEN s.segment
                            ELSE T_Explorer
                  ELSE T_Spacedrive

\* C18: setDefaultNewTabPath(p) leaves the tab list, the active tab, the
\* selections and the store as they were and sets the default path to p;
\* the slot then holds defaultNewTabPath = p. The default path changes in no
\* other operation and a restart brings it back from the slot. createTab
\* without a path gives its tab the default path of the moment as savedPath,
\* createTab with a path gives it that path.
C18_DefaultPathContract ==
    [][/\ last'.op = "setDefaultNewTabPath"
          => /\ defaultNewTabPath' = last'.arg.v
             /\ UNCHANGED <<tabs, activeTabId, selectionStates, states, listeners>>
       /\ last'.op # "setDefaultNewTabPath"
          => defaultNewTabPath' = defaultNewTabPath
       /\ Prop(storage', "defaultNewTabPath") = Str(defaultNewTabPath')
       /\ last'.op = "createTab"
          => /\ Len(tabs') = Len(tabs) + 1
             /\ tabs'[Len(tabs')].savedPath =
                    IF last'.arg.t = "string" THEN last'.arg.v
                    ELSE defaultNewTabPath]_vars

\* the default path was set to /favorites, a tab was created without a path
\* and one with the path of a tag, and the application was started again
C18_Witness ==
    /\ last.op = "restart"
    /\ defaultNewTabPath = S_Favorites
    /\ Len(tabs) = 3
    /\ tabs[1].savedPath = S_Root
    /\ tabs[2].savedPath = S_Favorites
    /\ tabs[3].savedPath = S_TagPath

(***************************************************************************)
(* Claims about closing a tab (specification SpecStore).                   *)
(***************************************************************************)
\* C21: closeTab(id) on a tab of a list of two or more removes that tab and
\* no other (the others keep their fields and their order), removes the
\* entry of id from the explorer table and from the selection map and leaves
\* the other entries as they were, whether the tab was active or not; when
\* it was not active the active id stays.
C21_CloseTearsDown ==
    [][(last'.op = "closeTab" /\ last'.id \in IdSet(tabs) /\ Len(tabs) >= 2)
          => /\ tabs' = SelectSeq(tabs, LAMBDA t : t.id # last'.id)
             /\ Len(tabs') = Len(tabs) - 1
             /\ DOMAIN states' = DOMAIN states \ {last'.id}
             /\ \A id \in DOMAIN states' : states'[id] = states[id]
             /\ DOMAIN selectionStates' = DOMAIN selectionStates \ {last'.id}
             /\ \A id \in DOMAIN selectionStates' :
                    selectionStates'[id] = selectionStates[id]
             /\ last'.id # activeTabId => activeTabId' = activeTabId]_vars

\* a tab that was not the active one was closed in a list of three; it had
\* an entry in the explorer table and in the selection map
C21_Witness ==
    /\ last.op = "closeTab"
    /\ last.arg.count = 3
    /\ last.arg.active # last.id
    /\ Len(tabs) = 2
    /\ last.id \notin IdSet(tabs)
    /\ activeTabId = last.arg.active
    /\ activeTabId \in IdSet(tabs)
    /\ DOMAIN states = IdSet(tabs)
    /\ DOMAIN selectionStates = IdSet(tabs)

(***************************************************************************)
(* Two handler calls in one task (specification SpecBatch). Both calls are *)
(* made with the callbacks of the last render, which closed over the tab   *)
(* list and the active id of that render; the setTabs updaters run in the  *)
(* order they were queued, each on the list the one before it returned,    *)
(* and the store is written at once.                                       *)
(***************************************************************************)
Call(op, id) == [op |-> op, id |-> id]

\* the calls a task makes
BatchCalls ==
    {Call("closeTab", id) : id \in IdSet(tabs) \cup {GhostId}}
        \cup {Call("switchTab", id) : id \in IdSet(tabs) \cup {GhostId}}
        \cup {Call("nextTab", ""), Call("previousTab", "")}

\* nextTab / previousTab: can the call read tabs[index].id
CallDefined(c, closureTabs, closureActive) ==
    /\ c.op = "nextTab" => NextIndex(closureTabs, closureActive) >= 0
    /\ c.op = "previousTab" => PrevIndex(closureTabs, closureActive) >= 0

\* the id the call hands to switchTab
CallTarget(c, closureTabs, closureActive) ==
    IF c.op = "nextTab"
    THEN closureTabs[NextIndex(closureTabs, closureActive) + 1].id
    ELSE IF c.op = "previousTab"
         THEN closureTabs[PrevIndex(closureTabs, closureActive) + 1].id
         ELSE c.id

\* does the call queue a setTabs updater that returns a new list
CallRenews(c, prev, closureTabs, closureActive) ==
    IF c.op = "closeTab" THEN Len(FilterOut(prev, c.id)) # 0
    ELSE ~SwitchReturns(CallTarget(c, closureTabs, closureActive), closureActive)

\* one call made with the given closures: q is the state the calls queued
\* before it leave (tab list, active id, explorer table, selection map)
CallResult(c, q, closureTabs, closureActive, now) ==
    IF c.op = "closeTab"
    THEN [tabs |-> ClosedTabs(q.tabs, c.id),
          active |-> ClosedActive(q.tabs, c.id, closureActive, q.active),
          states |-> ClosedStates(q.states, c.id),
          sel |-> ClosedSelection(q.sel, c.id)]
    ELSE LET target == CallTarget(c, closureTabs, closureActive)
         IN IF SwitchReturns(target, closureActive) THEN q
            ELSE [q EXCEPT !.tabs = SwitchedTabs(q.tabs, target, now),
                           !.active = SwitchedActive(q.tabs, target)]

\* the calls c1 and c2 made in one task on q. closeTab calls setActiveTabId
\* inside its setTabs updater: React runs the updater of the first call
\* either at once (eager) or in the next render, after the setActiveTabId
\* of the second call was queued
BatchResult(c1, c2, q, now, eager) ==
    LET r1 == CallResult(c1, q, q.tabs, q.active, now)
        r2 == CallResult(c2, r1, q.tabs, q.active, now)
    IN IF ~eager /\ c1.op = "closeTab" /\ c2.op # "closeTab" /\ r1.active # q.active
       THEN [r2 EXCEPT !.active = r1.active]
       ELSE r2

\* the calls c1 and c2 made in two tasks, with a render in between
SequentialResult(c1, c2, q, now) ==
    LET r1 == CallResult(c1, q, q.tabs, q.active, now)
    IN CallResult(c2, r1, r1.tabs, r1.active, now)

\* what the store delivers to its listeners during the call
CallDeliveries(c) == IF c.op = "closeTab" THEN <<c.id>> ELSE <<>>

\* Date.now() is read by a call that stamps a tab
CallStamps(c, closureTabs, closureActive) ==
    /\ c.op # "closeTab"
    /\ CallDefined(c, closureTabs, closureActive)
    /\ CallTarget(c, closureTabs, closureActive) \in IdSet(closureTabs)
    /\ ~SwitchReturns(CallTarget(c, closureTabs, closureActive), closureActive)

Batch(c1, c2, now, eager) ==
    LET q == [tabs |-> tabs, active |-> activeTabId, states |-> states,
              sel |-> selectionStates]
        r1 == CallResult(c1, q, tabs, activeTabId, now)
        r == BatchResult(c1, c2, q, now, eager)
    IN /\ steps + 2 <= MaxSteps
       /\ steps' = steps + 2
       /\ UNCHANGED backend
       /\ CallDefined(c1, tabs, activeTabId)
       /\ CallDefined(c2, tabs, activeTabId)
       /\ tabs' = r.tabs
       /\ activeTabId' = r.active
       /\ states' = r.states
       /\ selectionStates' = r.sel
       /\ delivered' = [l \in listeners |-> CallDeliveries(c1) \o CallDeliveries(c2)]
       /\ PersistenceEffect(CallRenews(c1, tabs, tabs, activeTabId)
                                \/ CallRenews(c2, r1.tabs, tabs, activeTabId),
                            tabs', activeTabId', states', defaultNewTabPath)
       /\ clock' = now
       /\ last' = Label("batch", "", "",
                        [first |-> c1, second |-> c2, now |-> now])
       /\ NoHistory
       /\ UNCHANGED <<defaultNewTabPath, listeners, nextId>>

NextBatch ==
    \/ \E args \in CreateArgs : createTab(args[1], args[2])
    \/ \E c1 \in BatchCalls, c2 \in BatchCalls :
          \E now \in IF CallStamps(c1, tabs, activeTabId)
                            \/ CallStamps(c2, tabs, activeTabId)
                        THEN clock..MaxClock ELSE {clock},
             eager \in IF c1.op = "closeTab" /\ c2.op # "closeTab"
                        THEN BOOLEAN ELSE {TRUE} :
              Batch(c1, c2, now, eager)

SpecBatch == Init /\ [][NextBatch]_vars

\* C22 (as stated): two calls made one after the other in one task leave the
\* tab list, the active id and the explorer table that the same two calls
\* leave when each is made on the state the one before it left.
C22_BatchAsSequential ==
    [][last'.op = "batch"
       => LET q == [tabs |-> tabs, active |-> activeTabId, states |-> states,
                    sel |-> selectionStates]
              s == SequentialResult(last'.arg.first, last'.arg.second, q,
                                    last'.arg.now)
          IN /\ tabs' = s.tabs
             /\ activeTabId' = s.active
             /\ states' = s.states]_vars

(***************************************************************************)
(* Claims about the broadcasts of the store (specification SpecStore).     *)
(***************************************************************************)
\* C23: a call of setState (createTab), updateState (updateExplorerState) or
\* deleteState (closeTab) changes the table and, before it returns, calls
\* every listener registered at that time once, with the id it was given,
\* so the deliveries for an id are made in the order of the calls; a
\* listener that is not registered is not called, and no other operation
\* calls a listener.
C23_BroadcastUnfiltered ==
    [][/\ last'.op \in {"createTab", "updateExplorerState", "closeTab"}
          => /\ listeners' = listeners
             /\ DOMAIN delivered' = listeners
             /\ \A l \in listeners : delivered'[l] = <<last'.id>>
             /\ last'.op = "createTab"
                  => states' = setState(states, last'.id, DEFAULT_EXPLORER_STATE)
             /\ last'.op = "updateExplorerState"
                  => states' = MapSet(states, last'.id,
                                      Spread(getState(states, last'.id), last'.arg.v))
             /\ last'.op = "closeTab"
                  => last'.id \notin DOMAIN states'
       /\ last'.op \notin {"createTab", "updateExplorerState", "closeTab"}
          => /\ DOMAIN delivered' = listeners'
             /\ \A l \in listeners' : delivered'[l] = <<>>
             /\ states' = states]_vars

\* the state of t1 was updated while the subscribers of t1 and of t2 were
\* registered: each was called once with t1
C23_Witness ==
    /\ last.op = "updateExplorerState"
    /\ last.id = "t1"
    /\ listeners = {"t1", "t2"}
    /\ delivered = [l \in {"t1", "t2"} |-> <<"t1">>]
    /\ states["t1"] # DEFAULT_EXPLORER_STATE

(***************************************************************************)
(* The provider mounted again in the same page (specification SpecReload). *)
(* The store is a module-level object: its table and the listeners of the  *)
(* components that called useTabExplorerState are there when the first     *)
(* mount effect of the provider runs.                                      *)
(***************************************************************************)
\* the store after the first mount effect ran on the store as it is
RemountedStates(table, slot, tabList) ==
    IF Rehydrates(slot)
    THEN loadFromRecord(loadPersistedState(slot).v.explorerStates)
    ELSE setState(table, tabList[1].id, DEFAULT_EXPLORER_STATE)

Remount ==
    \E now \in clock..MaxClock :
        /\ Step
        /\ AdoptsTabs(storage) \/ nextId <= MaxIds
        /\ tabs' = InitialTabs(storage, nextId, now)
        /\ activeTabId' = InitialActiveTabId(storage, tabs')
        /\ selectionStates' = InitialSelection(tabs')
        /\ defaultNewTabPath' = InitialDefaultPath(storage)
        /\ states' = RemountedStates(states, storage, tabs')
        /\ listeners' = listeners
        /\ delivered' = notifyListeners(listeners,
                            IF Rehydrates(storage) THEN Sentinel ELSE tabs'[1].id)
        /\ storage' = IF backend = "full" THEN FailedWrite(storage)
                       ELSE savePersistedState(
                                PersistedState(tabs', activeTabId',
                                               getAllStates(states'),
                                               defaultNewTabPath'))
        /\ written' = Snapshot(tabs', activeTabId', states', defaultNewTabPath')
        /\ nextId' = IF AdoptsTabs(storage) THEN nextId ELSE nextId + 1
        /\ clock' = IF AdoptsTabs(storage) THEN clock ELSE now
        /\ last' = Label("remount", "", "", [slot |-> storage, before |-> states])
        /\ NoHistory

NextReload ==
    \/ \E args \in CreateArgs : createTab(args[1], args[2])
    \/ \E tabId \in StoreArgIds : closeTab(tabId)
    \/ \E tabId \in StoreArgIds, updates \in StorePartials :
           updateExplorerState(tabId, updates)
    \/ \E tabId \in StoreArgIds : Subscribe(tabId)
    \/ Remount

SpecReload == Init /\ [][NextReload]_vars

\* C24: loadFromRecord(record) leaves in the store the entries of record and
\* no other, calls every registered listener once with the sentinel, and the
\* subscriber of every tab id calls React back once to read its state again.
C24_LoadReplacesAndBroadcasts ==
    [][(last'.op = "remount" /\ Rehydrates(last'.arg.slot))
       => LET record == Prop(last'.arg.slot, "explorerStates").v
          IN /\ DOMAIN states' = DOMAIN record
             /\ \A id \in DOMAIN record : states'[id] = record[id].v
             /\ DOMAIN delivered' = listeners
             /\ \A l \in listeners :
                    /\ delivered'[l] = <<Sentinel>>
                    /\ CallbackCount(delivered', l) = 1]_vars

\* the stored table was loaded over a table that differed from it while the
\* subscribers of two tabs were registered
C24_Witness ==
    /\ last.op = "remount"
    /\ Rehydrates(last.arg.slot)
    /\ last.arg.before # states
    /\ Cardinality(listeners) = 2
    /\ \A l \in listeners : delivered[l] = <<Sentinel>>

(***************************************************************************)
(* Claims about the active tab and the keys of the store over all          *)
(* operations.                                                             *)
(***************************************************************************)
\* C25 (as stated, specification Spec): in every reachable state
\* activeTabId is the id of exactly one tab of the list.
C25_ActiveIdIsATab ==
    Cardinality({i \in 1..Len(tabs) : tabs[i].id = activeTabId}) = 1

\* C26 (as stated, specification SpecPersist): every key of the explorer
\* table is the id of a tab of the list, and every key of the explorerStates
\* table of the snapshot written last is the id of a tab of that snapshot.
C26_StoreKeysAreTabs ==
    /\ DOMAIN states \subseteq IdSet(tabs)
    /\ DOMAIN written.explorerStates \subseteq IdSet(written.tabs)

(***************************************************************************)
(* Claims about the first write after start-up (specification SpecBoot).   *)
(***************************************************************************)
\* a snapshot with a non-empty tab sequence, a string activeTabId and a
\* keyed explorerStates mapping
KeyedSnapshot(slot) ==
    /\ slot.t = "object"
    /\ Prop(slot, "tabs").t = "array"
    /\ Len(Prop(slot, "tabs").v) > 0
    /\ Prop(slot, "activeTabId").t = "string"
    /\ Prop(slot, "explorerStates").t = "object"

\* C27 (as stated): the snapshot written by the mount that loaded a valid
\* snapshot has the tab list, the active id, the explorer table and the
\* default path of the snapshot loaded.
C27_StartupKeepsSnapshot ==
    (Mounted /\ KeyedSnapshot(last.arg))
        => /\ Prop(storage, "tabs") = Prop(last.arg, "tabs")
           /\ Prop(storage, "activeTabId") = Prop(last.arg, "activeTabId")
           /\ Prop(storage, "explorerStates") = Prop(last.arg, "explorerStates")
           /\ Prop(storage, "defaultNewTabPath") = Prop(last.arg, "defaultNewTabPath")

\* C27 (amended): the snapshot written by the mount that loaded a valid
\* snapshot has the tab list and the explorer table of the snapshot loaded;
\* its active id is the stored one if that is the id of a stored tab and the
\* id of the first tab otherwise, and its default path is the stored one, or
\* '/' if the snapshot loaded has none.
C27_StartupKeepsSnapshotRepaired ==
    (Mounted /\ KeyedSnapshot(last.arg))
        => LET stored == Prop(last.arg, "activeTabId").v
               ids == {Prop(last.arg, "tabs").v[i].v.id.v :
                          i \in 1..Len(Prop(last.arg, "tabs").v)}
           IN /\ Prop(storage, "tabs") = Prop(last.arg, "tabs")
              /\ Prop(storage, "explorerStates") = Prop(last.arg, "explorerStates")
              /\ Prop(storage, "activeTabId") =
                     IF stored \in ids THEN Str(stored)
                     ELSE Prop(last.arg, "tabs").v[1].v.id
              /\ Prop(storage, "defaultNewTabPath") =
                     IF Prop(last.arg, "defaultNewTabPath").t = "string"
                     THEN Prop(last.arg, "defaultNewTabPath")
                     ELSE Str(S_Root)

\* the application started again from the snapshot of a session in which a
\* third tab was created: the table of that snapshot, with the first tab
\* sorted by size, is the table of the snapshot written at the start
C27_Witness ==
    /\ last.op = "restart"
    /\ KeyedSnapshot(last.arg)
    /\ Len(tabs) = 3
    /\ storage = last.arg
    /\ states[Uuid(1)] # DEFAULT_EXPLORER_STATE

====
